---- MODULE Spec2Model ----
(***************************************************************************)
(* A model of lingvo/tasks/car/waymo/waymo_ap_metric.py: the builder of    *)
(* the Waymo metric Config, the WaymoAPMetrics object (lazy evaluation,    *)
(* per-class metric construction, weighted mAP, Summary) and the           *)
(* WaymoBreakdownMetric aggregator.                                        *)
(*                                                                         *)
(* Numbers.  AP values and IoU thresholds are fixed-point hundredths       *)
(* (0.7 is 70).  A float that may be NaN is a record [nan, val].  A        *)
(* quotient is kept exact as a record [num, den].                          *)
(* Strings are TLA+ strings; Python's '%s' / format is concatenation.      *)
(***************************************************************************)
EXTENDS Integers, Sequences, FiniteSets, TLC

VARIABLES
  pc,            \* "new" | "built" (config builder) | "ready" (metric object)
  metadata,      \* the metadata collaborator's answers
  box_type,      \* params.box_type
  waymo_breakdown_metrics,  \* params.waymo_breakdown_metrics
  config,        \* self._waymo_metric_config, or the exception the build raised
  boxes,         \* per eval-class position: what _LoadBoundingBoxes finds
  average_precisions,          \* WaymoBreakdownMetric._average_precisions
  average_precision_headings,  \* ._average_precision_headings
  precision_recall,            \* ._precision_recall
  precision_recall_headings,   \* ._precision_recall_headings
  fetched,       \* the (scalars, curves) last returned by compute_metrics_fn
  matcherCalls,  \* per eval-class position: detection_metrics invocations
  cmfCalls,      \* invocations of compute_metrics_fn
  calls,         \* operations called on the object so far
  lastOp,        \* the operation that produced this state
  ret            \* what that operation returned

vars == <<pc, metadata, box_type, waymo_breakdown_metrics, config, boxes,
          average_precisions, average_precision_headings, precision_recall,
          precision_recall_headings, fetched, matcherCalls, cmfCalls, calls,
          lastOp, ret>>

-----------------------------------------------------------------------------
(* Bounds of the model. *)

MaxClasses == 6
MaxOverrides == 1
MaxP == 3
MaxExtra == 2
MaxEvalExtra == 1
MaxEval == 2
MaxCalls == 3

(* Program constants. *)

DefaultIoU == 70
NumDefaultIoU == 5

-----------------------------------------------------------------------------
(* Generic helpers for Python lists and dicts. *)

Range(s) == {s[i] : i \in DOMAIN s}

EmptyDict == [x \in {} |-> 0]

\* LET x == e IN F(x), with e evaluated once, before F is.
Let(e, F(_)) == CHOOSE y \in {F(x) : x \in {e}} : TRUE

\* d[k] = v on a Python dict: a later assignment to the same key overwrites.
Put(d, k, v) ==
  CHOOSE f \in {[x \in DOMAIN dd \cup {kk} |-> IF x = kk THEN vv ELSE dd[x]] :
                dd \in {d}, kk \in {k}, vv \in {v}} : TRUE

\* list.index(x): the 0-based position of the first occurrence, -1 standing
\* for the ValueError raised when x is not in the list.
ListIndex(s, x) ==
  IF x \in Range(s)
  THEN (CHOOSE i \in DOMAIN s : s[i] = x /\ \A j \in 1..(i - 1) : s[j] # x) - 1
  ELSE -1

\* All sequences over S of length at most n.
SeqsUpTo(S, n) == UNION {[1..k -> S] : k \in 0..n}

\* Those without a repeated element (the items of a dict, in insertion order).
DictItemsUpTo(K, V, n) ==
  {s \in SeqsUpTo(K \X V, n) :
     \A i, j \in DOMAIN s : i # j => s[i][1] # s[j][1]}

\* Strictly ascending sequences over S of length at most n.
AscendingUpTo(S, n) ==
  {s \in SeqsUpTo(S, n) : \A i, j \in DOMAIN s : i < j => s[i] < s[j]}

-----------------------------------------------------------------------------
(* The collaborators' fixed data. *)

\* Class names a metadata object may list; the Waymo metadata lists the
\* first five.
ClassNamePool ==
  <<"Unknown", "Vehicle", "Pedestrian", "Sign", "Cyclist", "Bus", "Truck",
    "Tram">>

\* A class name no metadata of the model lists.
UnknownClassName == "Animal"

\* breakdown_pb2.Breakdown.GeneratorId: the enumeration's names and numbers.
GeneratorIds ==
  [UNKNOWN |-> 0, ONE_SHARD |-> 1, OBJECT_TYPE |-> 2, RANGE |-> 3,
   TIME_OF_DAY |-> 4, LOCATION |-> 5, WEATHER |-> 6, VELOCITY |-> 7,
   ALL_BUT_SIGN |-> 8]

ONE_SHARD == GeneratorIds["ONE_SHARD"]

\* Breakdown.GeneratorId.Value(name): the number, or ValueError.
GeneratorIdValue(name) ==
  IF name \in DOMAIN GeneratorIds
  THEN [status |-> "ok", id |-> GeneratorIds[name]]
  ELSE [status |-> "ValueError"]

\* metrics_pb2.Difficulty(): no levels set.
DefaultDifficulty == [levels |-> <<>>]

-----------------------------------------------------------------------------
(* _BuildWaymoMetricConfig *)

ScoreCutoffOffByOne(i, num_pr_points) == [num |-> i, den |-> num_pr_points]

\* i * 1.0 / (num_pr_points - 1), kept exact.
ScoreCutoff(i, num_pr_points) == [num |-> i, den |-> num_pr_points - 1]

\* [i * 1.0 / (num_pr_points - 1) for i in range(num_pr_points)]:
\* range is empty for num_pr_points <= 0, so nothing is divided; for 1 the
\* single element divides by zero.
ScoreCutoffs(num_pr_points) ==
  IF num_pr_points <= 0 THEN [status |-> "ok", list |-> <<>>]
  ELSE IF num_pr_points - 1 = 0 THEN [status |-> "ZeroDivisionError"]
  ELSE [status |-> "ok",
        list |-> [n \in 1..num_pr_points |-> ScoreCutoff(n - 1, num_pr_points)]]

BoxTypeOf(bt) == IF bt = "2d" THEN "TYPE_2D" ELSE "TYPE_3D"

\* config.iou_thresholds[:] = [0.7, 0.7, 0.7, 0.7, 0.7]
DefaultIoUThresholds(md) ==
  [status |-> "ok", list |-> [n \in 1..NumDefaultIoU |-> DefaultIoU]]

\* The loop over metadata.IoUThresholds().items(): the class name's index is
\* looked up in ClassNames() (ValueError when absent) and the repeated field
\* is assigned at that index (IndexError when it has no such element).
RECURSIVE ApplyIoUOverrides(_, _, _)
ApplyIoUOverrides(th, items, class_names) ==
  IF th.status # "ok" \/ items = <<>> THEN th
  ELSE LET class_name == Head(items)[1]
           threshold == Head(items)[2]
           cls_idx == ListIndex(class_names, class_name)
       IN IF cls_idx < 0 THEN [status |-> "ValueError"]
          ELSE IF cls_idx >= Len(th.list) THEN [status |-> "IndexError"]
          ELSE ApplyIoUOverrides(
                 [status |-> "ok",
                  list |-> [th.list EXCEPT ![cls_idx + 1] = threshold]],
                 Tail(items), class_names)

BreakdownsNoOneShard ==
  [status |-> "ok", ids |-> <<>>, difficulties |-> <<>>]

\* breakdown_generator_ids.append(ONE_SHARD); difficulties.append(Difficulty())
BreakdownsStart ==
  [status |-> "ok", ids |-> <<ONE_SHARD>>,
   difficulties |-> <<DefaultDifficulty>>]

\* The loop over waymo_breakdown_metrics.
RECURSIVE AppendBreakdowns(_, _)
AppendBreakdowns(b, names) ==
  IF b.status # "ok" \/ names = <<>> THEN b
  ELSE LET breakdown_id == GeneratorIdValue(Head(names))
       IN IF breakdown_id.status # "ok" THEN [status |-> breakdown_id.status]
          ELSE AppendBreakdowns(
                 [status |-> "ok",
                  ids |-> Append(b.ids, breakdown_id.id),
                  difficulties |-> Append(b.difficulties, DefaultDifficulty)],
                 Tail(names))

\* The whole builder; the first exception raised is the result.
_BuildWaymoMetricConfig(md, bt, wbm) ==
  LET sc == ScoreCutoffs(md.NumberOfPrecisionRecallPoints)
      th == ApplyIoUOverrides(DefaultIoUThresholds(md), md.IoUThresholds,
                              md.ClassNames)
      bd == AppendBreakdowns(BreakdownsStart, wbm)
  IN IF sc.status # "ok" THEN [status |-> sc.status]
     ELSE IF th.status # "ok" THEN [status |-> th.status]
     ELSE IF bd.status # "ok" THEN [status |-> bd.status]
     ELSE [status |-> "ok",
           score_cutoffs |-> sc.list,
           matcher_type |-> "TYPE_HUNGARIAN",
           box_type |-> BoxTypeOf(bt),
           iou_thresholds |-> th.list,
           breakdown_generator_ids |-> bd.ids,
           difficulties |-> bd.difficulties]

-----------------------------------------------------------------------------
(* The builder as a specification: any metadata, any parameters. *)

NoConfig == [status |-> "none"]

ClassNameLists == {SubSeq(ClassNamePool, 1, n) : n \in 1..MaxClasses}

IoUOverrideValues == {50}

ExtraNamePool == {"OBJECT_TYPE", "ALL_BUT_SIGN", "NOT_A_BREAKDOWN"}

IdleObject ==
  /\ boxes = <<>>
  /\ average_precisions = EmptyDict
  /\ average_precision_headings = EmptyDict
  /\ precision_recall = EmptyDict
  /\ precision_recall_headings = EmptyDict
  /\ fetched = <<>>
  /\ matcherCalls = <<>>
  /\ cmfCalls = 0
  /\ calls = 0
  /\ lastOp = "none"
  /\ ret = <<>>

InitConfig ==
  /\ pc = "new"
  /\ \E names \in ClassNameLists :
     \E items \in DictItemsUpTo(Range(names) \cup {UnknownClassName},
                                IoUOverrideValues, MaxOverrides) :
     \E p \in (-1)..MaxP :
       metadata = [ClassNames |-> names,
                   IoUThresholds |-> items,
                   NumberOfPrecisionRecallPoints |-> p,
                   EvalClassIndices |-> <<>>]
  /\ box_type \in {"2d", "3d"}
  /\ waymo_breakdown_metrics \in SeqsUpTo(ExtraNamePool, MaxExtra)
  /\ config = NoConfig
  /\ IdleObject

BuildConfig ==
  /\ pc = "new"
  /\ config' = _BuildWaymoMetricConfig(metadata, box_type,
                                       waymo_breakdown_metrics)
  /\ pc' = "built"
  /\ UNCHANGED <<metadata, box_type, waymo_breakdown_metrics, boxes,
                 average_precisions, average_precision_headings,
                 precision_recall, precision_recall_headings, fetched,
                 matcherCalls, cmfCalls, calls, lastOp, ret>>

NextConfig == BuildConfig

SpecConfig == InitConfig /\ [][NextConfig]_vars

-----------------------------------------------------------------------------
(* Strings: str.lower() and the `in` operator on strings. *)

UpperCaseLetters == "ABCDEFGHIJKLMNOPQRSTUVWXYZ"
LowerCaseLetters == "abcdefghijklmnopqrstuvwxyz"

\* The lower-case letter of every upper-case letter.
LowerCaseOf ==
  [c \in {SubSeq(UpperCaseLetters, n, n) : n \in 1..Len(UpperCaseLetters)} |->
     LET n == CHOOSE n \in 1..Len(UpperCaseLetters) :
                SubSeq(UpperCaseLetters, n, n) = c
     IN SubSeq(LowerCaseLetters, n, n)]

LowerChar(c) == IF c \in DOMAIN LowerCaseOf THEN LowerCaseOf[c] ELSE c

RECURSIVE Lower(_)
Lower(s) ==
  IF Len(s) = 0 THEN ""
  ELSE LowerChar(SubSeq(s, 1, 1)) \o Lower(SubSeq(s, 2, Len(s)))

\* a in b, for strings.
StrIn(a, b) ==
  \E n \in 0..(Len(b) - Len(a)) : SubSeq(b, n + 1, n + Len(a)) = a

-----------------------------------------------------------------------------
(* Floats that may be NaN. *)

NaN == [nan |-> TRUE, val |-> 0]
Num(x) == [nan |-> FALSE, val |-> x]

\* np.nan_to_num on a scalar.
nan_to_num(x) == IF x.nan THEN 0 ELSE x.val

-----------------------------------------------------------------------------
(* config_util.get_breakdown_names_from_config: one name per shard of each   *)
(* generator id of the config, in the config's order.  The shard names are   *)
(* the Waymo library's.                                                      *)

ShardNames ==
  [n \in {GeneratorIds[g] : g \in DOMAIN GeneratorIds} |->
     IF n = GeneratorIds["ONE_SHARD"] THEN <<"ONE_SHARD">>
     ELSE IF n = GeneratorIds["OBJECT_TYPE"]
       THEN <<"OBJECT_TYPE_TYPE_VEHICLE", "OBJECT_TYPE_TYPE_PEDESTRIAN",
              "OBJECT_TYPE_TYPE_SIGN", "OBJECT_TYPE_TYPE_CYCLIST">>
     ELSE IF n = GeneratorIds["ALL_BUT_SIGN"] THEN <<"ALL_BUT_SIGN">>
     ELSE <<>>]

RECURSIVE get_breakdown_names_from_ids(_)
get_breakdown_names_from_ids(ids) ==
  IF ids = <<>> THEN <<>>
  ELSE ShardNames[Head(ids)] \o get_breakdown_names_from_ids(Tail(ids))

get_breakdown_names_from_config(cfg) ==
  get_breakdown_names_from_ids(cfg.breakdown_generator_ids)

-----------------------------------------------------------------------------
(* The external matcher, py_metrics_ops.detection_metrics: a pure function   *)
(* of the boxes fed and the config, returning one AP, APH and PR curve per   *)
(* breakdown.  The boxes are abstracted away: the numbers returned depend    *)
(* on the class and the breakdown only.                                      *)

APValueTable == <<0, 60, 80, 100>>

MatcherAP(classid, n) ==
  APValueTable[((classid + n) % Len(APValueTable)) + 1]

MatcherAPH(classid, n) ==
  APValueTable[((2 * classid + n) % Len(APValueTable)) + 1]

\* A [P, 2] array: rows of (precision, recall).
MatcherCurve(level, P) == [j \in 1..P |-> <<level, ((j - 1) * 100) \div P>>]

detection_metrics(feed_data, classid, cfg) ==
  LET B == Len(get_breakdown_names_from_config(cfg))
      P == Len(cfg.score_cutoffs)
  IN [ap |-> [n \in 1..B |-> Num(MatcherAP(classid, n))],
      ap_ha |-> [n \in 1..B |-> Num(MatcherAPH(classid, n))],
      pr |-> [n \in 1..B |->
                MatcherCurve(MatcherAP(classid, n), P)],
      pr_ha |-> [n \in 1..B |->
                   MatcherCurve(MatcherAPH(classid, n), P)]]

-----------------------------------------------------------------------------
(* WaymoAPMetrics._GetData *)

None == [none |-> TRUE]

\* APMetrics._LoadBoundingBoxes(kind, classid, ...): the boxes of that kind
\* accumulated for the class, or None.
_LoadBoundingBoxes(bx, kind, pos) ==
  IF bx[pos][kind] THEN [none |-> FALSE, kind |-> kind] ELSE None

\* None when the ground truth or the predictions are missing.
_GetData(bx, pos) ==
  LET g == _LoadBoundingBoxes(bx, "groundtruth", pos)
      p == _LoadBoundingBoxes(bx, "prediction", pos)
  IN IF g.none \/ p.none THEN None
     ELSE [none |-> FALSE, gt |-> g, pd |-> p]

-----------------------------------------------------------------------------
(* WaymoAPMetrics._BuildMetric *)

\* tf.zeros([P, 2])
ZeroCurve(P) == [j \in 1..P |-> <<0, 0>>]

DummyScalarZero == Num(0)

\* tf.constant(np.nan)
DummyScalar == NaN

RECURSIVE DummyLoopNoHeadings(_, _, _, _)
DummyLoopNoHeadings(m, names, n, dummy_curve) ==
  Let(m, LAMBDA acc :
    IF n > Len(names) THEN acc
    ELSE DummyLoopNoHeadings(
           [scalars |-> Put(acc.scalars, "ap_" \o names[n], DummyScalar),
            curves |-> Put(acc.curves, "pr_" \o names[n], dummy_curve)],
           names, n + 1, dummy_curve))

\* The loop `for i, metric in enumerate(breakdown_names)` of the feed_data
\* is None branch, from position n on; m holds the two dicts so far.
RECURSIVE DummyLoop(_, _, _, _)
DummyLoop(m, names, n, dummy_curve) ==
  Let(m, LAMBDA acc :
    IF n > Len(names) THEN acc
    ELSE DummyLoop(
           [scalars |->
              Put(Put(acc.scalars, "ap_" \o names[n], DummyScalar),
                  "ap_ha_weighted_" \o names[n], DummyScalar),
            curves |->
              Put(Put(acc.curves, "pr_" \o names[n], dummy_curve),
                  "pr_ha_weighted_" \o names[n], dummy_curve)],
           names, n + 1, dummy_curve))

\* The same loop of the branch that has data: ap[i], ap_ha[i], pr[i],
\* pr_ha[i] (i is 0-based in the code, n = i + 1 here).
RECURSIVE MetricLoop(_, _, _, _)
MetricLoop(m, names, n, out) ==
  Let(m, LAMBDA acc :
    IF n > Len(names) THEN acc
    ELSE MetricLoop(
           [scalars |->
              Put(Put(acc.scalars, "ap_" \o names[n], out.ap[n]),
                  "ap_ha_weighted_" \o names[n], out.ap_ha[n]),
            curves |->
              Put(Put(acc.curves, "pr_" \o names[n], out.pr[n]),
                  "pr_ha_weighted_" \o names[n], out.pr_ha[n])],
           names, n + 1, out))

\* The feed_data is None branch.
BuildDummyMetric(breakdown_names, md) ==
  Let(ZeroCurve(md.NumberOfPrecisionRecallPoints), LAMBDA dummy_curve :
    Let(DummyLoop(
          [scalars |-> Put(Put(EmptyDict, "ap", DummyScalar),
                           "ap_ha_weighted", DummyScalar),
           curves |-> Put(Put(EmptyDict, "pr", dummy_curve),
                          "pr_ha_weighted", dummy_curve)],
          breakdown_names, 1, dummy_curve),
        LAMBDA m :
          [scalars |-> m.scalars, curves |-> m.curves, matcher |-> 0]))

\* The branch that feeds the boxes to the matcher op.
BuildMatcherMetric(breakdown_names, feed_data, classid, cfg) ==
  Let(detection_metrics(feed_data, classid, cfg), LAMBDA out :
    Let(MetricLoop(
          [scalars |-> Put(Put(EmptyDict, "ap", out.ap[1]),
                           "ap_ha_weighted", out.ap_ha[1]),
           curves |-> Put(Put(EmptyDict, "pr", out.pr[1]),
                          "pr_ha_weighted", out.pr_ha[1])],
          breakdown_names, 1, out),
        LAMBDA m :
          [scalars |-> m.scalars, curves |-> m.curves, matcher |-> 1]))

\* Returns the scalars, the curves, and whether the matcher op was built
\* (and so runs once when the graph is evaluated).
_BuildMetric(feed_data, classid, cfg, md) ==
  Let(get_breakdown_names_from_config(cfg), LAMBDA breakdown_names :
    IF feed_data.none
    THEN BuildDummyMetric(breakdown_names, md)
    ELSE BuildMatcherMetric(breakdown_names, feed_data, classid, cfg))

-----------------------------------------------------------------------------
(* The object: the metric with its aggregator, as one record. *)

Object ==
  [average_precisions |-> average_precisions,
   average_precision_headings |-> average_precision_headings,
   precision_recall |-> precision_recall,
   precision_recall_headings |-> precision_recall_headings,
   fetched |-> fetched,
   matcherCalls |-> matcherCalls,
   cmfCalls |-> cmfCalls]

\* APMetrics._ComputeFinalMetrics, the compute_metrics_fn: for every eval
\* class, in order, _GetData and _BuildMetric, then one run of the graph.
_ComputeFinalMetrics(obj) ==
  Let([pos \in DOMAIN metadata.EvalClassIndices |->
         _BuildMetric(_GetData(boxes, pos), metadata.EvalClassIndices[pos],
                      config, metadata)],
      LAMBDA built :
        [scalars |-> [pos \in DOMAIN built |-> built[pos].scalars],
         curves |-> [pos \in DOMAIN built |-> built[pos].curves],
         matcher |-> [pos \in DOMAIN built |-> built[pos].matcher]])

\* params.breakdown_list of the aggregator, set at construction.
breakdown_list == get_breakdown_names_from_config(config)

\* The loop `for breakdown_str in p.breakdown_list` of ComputeMetrics.
RECURSIVE GatherLoop(_, _, _, _)
GatherLoop(obj, names, scalars, curves) ==
  IF names = <<>> THEN obj
  ELSE Let(Head(names), LAMBDA breakdown_str :
         GatherLoop(
           [obj EXCEPT
              !.average_precisions =
                 Put(@, breakdown_str,
                     [pos \in DOMAIN scalars |->
                        scalars[pos]["ap_" \o breakdown_str]]),
              !.average_precision_headings =
                 Put(@, breakdown_str,
                     [pos \in DOMAIN scalars |->
                        scalars[pos]["ap_ha_weighted_" \o breakdown_str]]),
              !.precision_recall =
                 Put(@, breakdown_str,
                     [pos \in DOMAIN curves |->
                        curves[pos]["pr_" \o breakdown_str]]),
              !.precision_recall_headings =
                 Put(@, breakdown_str,
                     [pos \in DOMAIN curves |->
                        curves[pos]["pr_ha_weighted_" \o breakdown_str]])],
           Tail(names), scalars, curves))

\* The call of compute_metrics_fn and what it leaves on the object.
Computed(obj, r) ==
  [obj EXCEPT
     !.fetched = <<r.scalars, r.curves>>,
     !.matcherCalls = [pos \in DOMAIN @ |-> @[pos] + r.matcher[pos]],
     !.cmfCalls = @ + 1]

ComputeMetricsGuarded(obj) ==
  Let(obj, LAMBDA o :
    IF DOMAIN o.average_precisions # {} THEN o
    ELSE Let(_ComputeFinalMetrics(o), LAMBDA r :
           Let(breakdown_list, LAMBDA names :
             GatherLoop(Computed(o, r), names, r.scalars, r.curves))))

ComputeMetricsHeadingsOnly(obj) ==
  Let(obj, LAMBDA o :
    Let(_ComputeFinalMetrics(o), LAMBDA r :
      Let(breakdown_list, LAMBDA names :
        [GatherLoop(Computed(o, r), names, r.scalars, r.curves)
           EXCEPT !.average_precisions = o.average_precisions])))

\* WaymoBreakdownMetric.ComputeMetrics(compute_metrics_fn): calls the
\* function, then fills the four maps from what it returned.
ComputeMetrics(obj) ==
  Let(_ComputeFinalMetrics(obj), LAMBDA r :
    Let(breakdown_list, LAMBDA names :
      GatherLoop(Computed(obj, r), names, r.scalars, r.curves)))

\* The aggregator has been filled.
Populated(obj) == DOMAIN obj.average_precisions # {}

\* APMetrics._EvaluateIfNecessary: the evaluation pass, unless it has run.
_EvaluateIfNecessary(obj) ==
  Let(obj, LAMBDA o : IF Populated(o) THEN o ELSE ComputeMetrics(o))

-----------------------------------------------------------------------------
(* WaymoAPMetrics.value *)

RECURSIVE SumNanToNum(_, _)
SumNanToNum(aps, n) ==
  IF n = 0 THEN 0 ELSE SumNanToNum(aps, n - 1) + nan_to_num(aps[n])

RECURSIVE SumNotNan(_, _)
SumNotNan(aps, n) ==
  IF n = 0 THEN 0 ELSE SumNotNan(aps, n - 1) + (IF aps[n].nan THEN 0 ELSE 1)

WeightedMeanSkippingNaN(ap, b0, n) ==
  IF SumNotNan(ap[b0], n) = 0 THEN [status |-> "ZeroDivisionError"]
  ELSE [status |-> "ok", num |-> SumNanToNum(ap[b0], n),
        den |-> SumNotNan(ap[b0], n)]

\* The loop of value and its final division: num_sum / denom_sum, where
\* denom_sum counts the eval classes.
WeightedMean(ap, b0, n) ==
  IF n = 0 THEN [status |-> "ZeroDivisionError"]
  ELSE [status |-> "ok", num |-> SumNanToNum(ap[b0], n), den |-> n]

\* Returns the object after the call and the value (or the exception).
value(obj) ==
  Let(_EvaluateIfNecessary(obj), LAMBDA o :
    Let(get_breakdown_names_from_config(config), LAMBDA breakdown_names :
      Let(Len(metadata.EvalClassIndices), LAMBDA n :
        [obj |-> o,
         result |->
           IF n > 0 /\ breakdown_names[1] \notin DOMAIN o.average_precisions
           THEN [status |-> "KeyError"]
           ELSE WeightedMean(o.average_precisions, breakdown_names[1], n)])))

-----------------------------------------------------------------------------
(* WaymoAPMetrics.Summary and WaymoBreakdownMetric.GenerateSummaries.  An    *)
(* emitted entry also records the eval-class position and the breakdown      *)
(* index (0-based, as in the code) it was emitted for; the tag of an extra   *)
(* breakdown's scalars does not name the class.                              *)

SkipEntryCaseSensitive(k, classname, breakdown_name) ==
  k > 0 /\ ~StrIn(classname, breakdown_name)

\* str.lower() of every name of the model, tabulated once.
LowerOf ==
  [s \in Range(ClassNamePool)
         \cup UNION {Range(ShardNames[n]) : n \in DOMAIN ShardNames} |->
     Lower(s)]

lower(s) == IF s \in DOMAIN LowerOf THEN LowerOf[s] ELSE Lower(s)

\* Summary: `if k > 0 and classname.lower() not in breakdown_name.lower()`
SkipEntry(k, classname, breakdown_name) ==
  k > 0 /\ ~StrIn(lower(classname), lower(breakdown_name))

\* GenerateSummaries: the same test on p.breakdown_list.
SkipCurve(k, classname, breakdown_str) ==
  k > 0 /\ ~StrIn(lower(classname), lower(breakdown_str))

\* The two scalars Summary adds for eval position i (0-based) and breakdown k.
ScalarEntries(name, i, k, classname, breakdown_name, ap, aph) ==
  LET prefix == IF k = 0 THEN name \o "/" \o classname ELSE name \o "_extra"
      breakdown_str == IF k = 0 THEN "default" ELSE breakdown_name
  IN <<[tag |-> prefix \o "/AP_" \o breakdown_str,
        simple_value |-> ap[breakdown_name][i + 1],
        kind |-> "AP", i |-> i, k |-> k],
       [tag |-> prefix \o "/APH_" \o breakdown_str,
        simple_value |-> aph[breakdown_name][i + 1],
        kind |-> "APH", i |-> i, k |-> k]>>

\* The inner loop of Summary over the breakdown names, from index k on.
RECURSIVE SummaryBreakdowns(_, _, _, _, _, _, _)
SummaryBreakdowns(name, i, k, classname, breakdown_names, ap, aph) ==
  IF k >= Len(breakdown_names) THEN <<>>
  ELSE (IF SkipEntry(k, classname, breakdown_names[k + 1]) THEN <<>>
        ELSE ScalarEntries(name, i, k, classname, breakdown_names[k + 1],
                           ap, aph))
       \o SummaryBreakdowns(name, i, k + 1, classname, breakdown_names,
                            ap, aph)

\* The outer loop of Summary over enumerate(EvalClassIndices()).
RECURSIVE SummaryClasses(_, _, _, _, _)
SummaryClasses(name, i, breakdown_names, ap, aph) ==
  IF i >= Len(metadata.EvalClassIndices) THEN <<>>
  ELSE LET j == metadata.EvalClassIndices[i + 1]
           classname == metadata.ClassNames[j + 1]
       IN SummaryBreakdowns(name, i, 0, classname, breakdown_names, ap, aph)
          \o SummaryClasses(name, i + 1, breakdown_names, ap, aph)

\* One plot.Curve: xs is the recall column, ys the precision column.
CurveEntry(name, i, k, classname, breakdown_str, pr) ==
  LET array == pr[breakdown_str][i + 1]
      ps == [r \in DOMAIN array |-> array[r][1]]
      rs == [r \in DOMAIN array |-> array[r][2]]
  IN <<[tag |-> IF k = 0 THEN name \o "/" \o classname \o "/PR"
                ELSE name \o "/" \o classname \o "/" \o breakdown_str
                     \o "/PR",
        xs |-> rs, ys |-> ps, i |-> i, k |-> k]>>

RECURSIVE CurveBreakdowns(_, _, _, _, _, _)
CurveBreakdowns(name, i, k, classname, names, pr) ==
  IF k >= Len(names) THEN <<>>
  ELSE (IF SkipCurve(k, classname, names[k + 1]) THEN <<>>
        ELSE CurveEntry(name, i, k, classname, names[k + 1], pr))
       \o CurveBreakdowns(name, i, k + 1, classname, names, pr)

RECURSIVE CurveClasses(_, _, _)
CurveClasses(name, i, pr) ==
  IF i >= Len(metadata.EvalClassIndices) THEN <<>>
  ELSE LET j == metadata.EvalClassIndices[i + 1]
           classname == metadata.ClassNames[j + 1]
       IN CurveBreakdowns(name, i, 0, classname, breakdown_list, pr)
          \o CurveClasses(name, i + 1, pr)

\* WaymoBreakdownMetric.GenerateSummaries(name): the image summaries.
GenerateSummaries(obj, name) == CurveClasses(name, 0, obj.precision_recall)

\* Summary(name): evaluates if necessary, reads self.value (which calls
\* _EvaluateIfNecessary again), adds the scalars, then the image summaries.
\* An exception raised on the way is the result.
Summary(obj, name) ==
  Let(_EvaluateIfNecessary(obj), LAMBDA o1 :
    Let(value(o1), LAMBDA v :
      Let(get_breakdown_names_from_config(config), LAMBDA breakdown_names :
        [obj |-> v.obj,
         result |->
           IF v.result.status # "ok" THEN [status |-> v.result.status]
           ELSE [status |-> "ok",
                 weighted_mAP |-> [tag |-> name \o "/weighted_mAP",
                                   simple_value |-> v.result],
                 scalars |-> SummaryClasses(name, 0, breakdown_names,
                                            v.obj.average_precisions,
                                            v.obj.average_precision_headings),
                 images |-> GenerateSummaries(v.obj, name)]])))

-----------------------------------------------------------------------------
(* The metric object as a specification: constructed with a valid            *)
(* configuration, boxes accumulated, then any sequence of calls.             *)

WaymoClassNames == SubSeq(ClassNamePool, 1, NumDefaultIoU)

ResolvableExtras == {"OBJECT_TYPE", "ALL_BUT_SIGN"}

SummaryNames == {"eval"}

\* What the loader finds for one eval class: whether any ground-truth box
\* and whether any predicted box was accumulated for it.
BoxStates == [groundtruth : BOOLEAN, prediction : BOOLEAN]

Init ==
  /\ pc = "ready"
  /\ \E p \in {2, MaxP} :
     \E eval \in AscendingUpTo(1..(Len(WaymoClassNames) - 1), MaxEval)
                   \ {<<>>} :
       /\ metadata = [ClassNames |-> WaymoClassNames,
                      IoUThresholds |-> <<>>,
                      NumberOfPrecisionRecallPoints |-> p,
                      EvalClassIndices |-> eval]
       /\ boxes \in [DOMAIN eval -> BoxStates]
       /\ matcherCalls = [pos \in DOMAIN eval |-> 0]
  /\ box_type = "3d"
  /\ waymo_breakdown_metrics \in SeqsUpTo(ResolvableExtras, MaxEvalExtra)
  /\ config = _BuildWaymoMetricConfig(metadata, box_type,
                                      waymo_breakdown_metrics)
  /\ average_precisions = EmptyDict
  /\ average_precision_headings = EmptyDict
  /\ precision_recall = EmptyDict
  /\ precision_recall_headings = EmptyDict
  /\ fetched = <<>>
  /\ cmfCalls = 0
  /\ calls = 0
  /\ lastOp = "none"
  /\ ret = <<>>

\* The object's fields after a call.
Becomes(obj) ==
  /\ average_precisions' = obj.average_precisions
  /\ average_precision_headings' = obj.average_precision_headings
  /\ precision_recall' = obj.precision_recall
  /\ precision_recall_headings' = obj.precision_recall_headings
  /\ fetched' = obj.fetched
  /\ matcherCalls' = obj.matcherCalls
  /\ cmfCalls' = obj.cmfCalls
  /\ calls' = calls + 1
  /\ UNCHANGED <<pc, metadata, box_type, waymo_breakdown_metrics, config,
                 boxes>>

CallEvaluateIfNecessary ==
  /\ pc = "ready" /\ calls < MaxCalls
  /\ \E o \in {_EvaluateIfNecessary(Object)} : Becomes(o)
  /\ lastOp' = "_EvaluateIfNecessary"
  /\ ret' = [status |-> "ok"]

CallValue ==
  /\ pc = "ready" /\ calls < MaxCalls
  /\ \E r \in {value(Object)} :
       /\ Becomes(r.obj)
       /\ ret' = r.result
  /\ lastOp' = "value"

CallSummary ==
  /\ pc = "ready" /\ calls < MaxCalls
  /\ \E name \in SummaryNames :
     \E r \in {Summary(Object, name)} :
       /\ Becomes(r.obj)
       /\ ret' = r.result
  /\ lastOp' = "Summary"

Next == CallEvaluateIfNecessary \/ CallValue \/ CallSummary

Spec == Init /\ [][Next]_vars

-----------------------------------------------------------------------------
(* The aggregator called directly: ComputeMetrics(compute_metrics_fn) with   *)
(* the metric's own compute function, any number of times.                   *)

CallComputeMetrics ==
  /\ pc = "ready" /\ calls < MaxCalls
  /\ \E o \in {ComputeMetrics(Object)} : Becomes(o)
  /\ lastOp' = "ComputeMetrics"
  /\ ret' = [status |-> "ok"]

NextAggregator == CallComputeMetrics

SpecAggregator == Init /\ [][NextAggregator]_vars

-----------------------------------------------------------------------------
(* _BuildMetric alone: applied to what _GetData returns for an eval class    *)
(* and to None, under the object's configuration.                            *)

CallBuildMetric ==
  /\ pc = "ready" /\ calls < MaxCalls
  /\ \E pos \in DOMAIN metadata.EvalClassIndices :
     \E classid \in {metadata.EvalClassIndices[pos]} :
     \E feed_data \in {_GetData(boxes, pos)} :
       ret' = [status |-> "ok",
               feed_data |-> feed_data,
               built |-> _BuildMetric(feed_data, classid, config, metadata),
               placeholder |-> _BuildMetric(None, classid, config, metadata)]
  /\ Becomes(Object)
  /\ lastOp' = "_BuildMetric"

NextBuildMetric == CallBuildMetric

SpecBuildMetric == Init /\ [][NextBuildMetric]_vars

-----------------------------------------------------------------------------
(* Properties. *)

HasData(pos) == boxes[pos].groundtruth /\ boxes[pos].prediction

RECURSIVE SumOver(_, _)
SumOver(f, S) ==
  IF S = {} THEN 0
  ELSE LET x == CHOOSE x \in S : TRUE IN f[x] + SumOver(f, S \ {x})

\* C1: whatever sequence of _EvaluateIfNecessary, value and Summary calls is
\* made on one metric object, the evaluation pass has run exactly once as
\* soon as one call has been made and never again: compute_metrics_fn has
\* been invoked once, and the external matcher once for every eval class
\* that has data and never for the others.
EvaluationRunsOnce ==
  pc = "ready" =>
    /\ cmfCalls = (IF calls > 0 THEN 1 ELSE 0)
    /\ \A pos \in DOMAIN matcherCalls :
         /\ matcherCalls[pos] <= 1
         /\ matcherCalls[pos] = (IF calls > 0 /\ HasData(pos) THEN 1 ELSE 0)

EvaluationRunsOnceWitness ==
  /\ pc = "ready" /\ calls >= 3 /\ lastOp = "value"
  /\ \E pos \in DOMAIN matcherCalls : matcherCalls[pos] = 1
  /\ cmfCalls = 1

\* C2: a config that was built has breakdown_generator_ids = ONE_SHARD
\* followed by the id of every extra breakdown name in the given order, and
\* as many difficulties: both hold 1 + len(extra names) entries.
BreakdownIdsFollowExtraNames ==
  (pc = "built" /\ config.status = "ok") =>
    /\ Len(config.breakdown_generator_ids) = 1 + Len(waymo_breakdown_metrics)
    /\ Len(config.difficulties) = Len(config.breakdown_generator_ids)
    /\ config.breakdown_generator_ids[1] = GeneratorIds["ONE_SHARD"]
    /\ \A n \in DOMAIN waymo_breakdown_metrics :
         /\ waymo_breakdown_metrics[n] \in DOMAIN GeneratorIds
         /\ config.breakdown_generator_ids[n + 1] =
              GeneratorIds[waymo_breakdown_metrics[n]]

BreakdownIdsFollowExtraNamesWitness ==
  /\ pc = "built" /\ config.status = "ok"
  /\ Len(waymo_breakdown_metrics) >= 2
  /\ waymo_breakdown_metrics[1] # waymo_breakdown_metrics[2]

\* C3: building the config fails for every number of precision-recall
\* points below 2.
BuildFailsBelowTwoPoints ==
  (pc = "built" /\ metadata.NumberOfPrecisionRecallPoints < 2) =>
    config.status # "ok"

\* C4: when the number of points is at least 2, the extra breakdown names
\* resolve and every overridden name is a class name, the build succeeds
\* and the config holds a threshold for every class index: the override for
\* an overridden class, 0.7 for any other.
IoUThresholdForEveryClass ==
  (/\ pc = "built"
   /\ metadata.NumberOfPrecisionRecallPoints >= 2
   /\ \A n \in DOMAIN waymo_breakdown_metrics :
        waymo_breakdown_metrics[n] \in DOMAIN GeneratorIds
   /\ \A n \in DOMAIN metadata.IoUThresholds :
        metadata.IoUThresholds[n][1] \in Range(metadata.ClassNames))
  =>
    /\ config.status = "ok"
    /\ \A c \in DOMAIN metadata.ClassNames :
         /\ c \in DOMAIN config.iou_thresholds
         /\ \A n \in DOMAIN metadata.IoUThresholds :
              metadata.IoUThresholds[n][1] = metadata.ClassNames[c] =>
                config.iou_thresholds[c] = metadata.IoUThresholds[n][2]
         /\ (\A n \in DOMAIN metadata.IoUThresholds :
               metadata.IoUThresholds[n][1] # metadata.ClassNames[c]) =>
              config.iou_thresholds[c] = DefaultIoU

\* C5: for the same config, _BuildMetric(None, ...) returns scalars and curves
\* under exactly the keys it returns for data: ap, ap_ha_weighted, ap_<b>,
\* ap_ha_weighted_<b>, and pr, pr_ha_weighted, pr_<b>, pr_ha_weighted_<b> for
\* every breakdown name b; every placeholder scalar is NaN and every
\* placeholder curve is P rows of (0, 0).
PlaceholderHasTheShapeOfData ==
  (pc = "ready" /\ lastOp = "_BuildMetric") =>
    LET names == Range(get_breakdown_names_from_config(config))
        scalar_keys == {"ap", "ap_ha_weighted"}
                         \cup {"ap_" \o b : b \in names}
                         \cup {"ap_ha_weighted_" \o b : b \in names}
        curve_keys == {"pr", "pr_ha_weighted"}
                        \cup {"pr_" \o b : b \in names}
                        \cup {"pr_ha_weighted_" \o b : b \in names}
        P == metadata.NumberOfPrecisionRecallPoints
    IN /\ DOMAIN ret.placeholder.scalars = scalar_keys
       /\ DOMAIN ret.built.scalars = scalar_keys
       /\ DOMAIN ret.placeholder.curves = curve_keys
       /\ DOMAIN ret.built.curves = curve_keys
       /\ \A key \in scalar_keys : ret.placeholder.scalars[key].nan
       /\ \A key \in curve_keys :
            /\ DOMAIN ret.placeholder.curves[key] = 1..P
            /\ \A row \in 1..P :
                 ret.placeholder.curves[key][row] = <<0, 0>>
       /\ ret.feed_data.none => ret.built = ret.placeholder

PlaceholderHasTheShapeOfDataWitness ==
  /\ pc = "ready" /\ lastOp = "_BuildMetric"
  /\ ~ret.feed_data.none
  /\ ret.built.matcher = 1
  /\ Len(get_breakdown_names_from_config(config)) > 1
  /\ \E key \in DOMAIN ret.built.scalars : ~ret.built.scalars[key].nan

\* C6: value returns the sum, over all eval-class positions, of the overall
\* breakdown's average precisions with NaN counted as 0, divided by the
\* number of eval classes.
WeightedValueCountsNaNAsZero ==
  (pc = "ready" /\ lastOp = "value" /\ Len(metadata.EvalClassIndices) > 0) =>
    /\ ret.status = "ok"
    /\ breakdown_list[1] = "ONE_SHARD"
    /\ LET overall == average_precisions["ONE_SHARD"]
           counted == [pos \in DOMAIN overall |->
                         IF overall[pos].nan THEN 0 ELSE overall[pos].val]
       IN /\ DOMAIN overall = DOMAIN metadata.EvalClassIndices
          /\ ret.num = SumOver(counted, DOMAIN overall)
          /\ ret.den = Len(metadata.EvalClassIndices)

WeightedValueCountsNaNAsZeroWitness ==
  /\ pc = "ready" /\ lastOp = "value" /\ ret.status = "ok"
  /\ Len(metadata.EvalClassIndices) >= 2
  /\ \E pos \in DOMAIN metadata.EvalClassIndices :
       average_precisions["ONE_SHARD"][pos].nan
  /\ ret.num > 0

\* C7: Summary emits the AP and APH scalars, and GenerateSummaries the PR
\* curve, for exactly the same (eval class, breakdown) pairs: every eval
\* class with the overall breakdown (index 0), and an eval class with a later
\* breakdown exactly when the lower-cased class name occurs in the
\* lower-cased breakdown name.
SummaryFiltersByClassName ==
  (pc = "ready" /\ lastOp = "Summary" /\ ret.status = "ok") =>
    LET names == get_breakdown_names_from_config(config)
        \* the lower-cased breakdown names and eval class names, 0-based
        breakdown == [k \in 0..(Len(names) - 1) |-> Lower(names[k + 1])]
        class == [i \in 0..(Len(metadata.EvalClassIndices) - 1) |->
                    Lower(metadata.ClassNames[
                            metadata.EvalClassIndices[i + 1] + 1])]
        expected ==
          {ik \in (DOMAIN class) \X (DOMAIN breakdown) :
             \/ ik[2] = 0
             \/ \E n \in 0..(Len(breakdown[ik[2]]) - Len(class[ik[1]])) :
                  SubSeq(breakdown[ik[2]], n + 1, n + Len(class[ik[1]]))
                    = class[ik[1]]}
        emitted(kind) ==
          {<<ret.scalars[n].i, ret.scalars[n].k>> :
             n \in {m \in DOMAIN ret.scalars : ret.scalars[m].kind = kind}}
        curves == {<<ret.images[n].i, ret.images[n].k>> :
                     n \in DOMAIN ret.images}
    IN /\ emitted("AP") = expected
       /\ emitted("APH") = expected
       /\ curves = expected
       /\ Len(ret.scalars) = 2 * Cardinality(expected)
       /\ Len(ret.images) = Cardinality(expected)

SummaryFiltersByClassNameWitness ==
  /\ pc = "ready" /\ lastOp = "Summary" /\ ret.status = "ok"
  /\ \E n \in DOMAIN ret.scalars : ret.scalars[n].k > 0
  /\ \E n \in DOMAIN ret.images : ret.images[n].k > 0
  /\ Len(ret.images) <
       Len(metadata.EvalClassIndices)
         * Len(get_breakdown_names_from_config(config))

\* C8: for P >= 2 a built config has P score cutoffs, the one at index i is
\* i / (P - 1), they ascend strictly, the first is 0 and the last is 1.
ScoreCutoffsAreTheUniformGrid ==
  (/\ pc = "built" /\ config.status = "ok"
   /\ metadata.NumberOfPrecisionRecallPoints >= 2)
  =>
    LET P == metadata.NumberOfPrecisionRecallPoints
        sc == config.score_cutoffs
    IN /\ Len(sc) = P
       /\ \A i \in 0..(P - 1) :
            sc[i + 1].den > 0 /\ sc[i + 1].num * (P - 1) = i * sc[i + 1].den
       /\ \A i \in 1..(P - 1) :
            sc[i].num * sc[i + 1].den < sc[i + 1].num * sc[i].den
       /\ sc[1].num = 0
       /\ sc[P].num = sc[P].den

ScoreCutoffsAreTheUniformGridWitness ==
  /\ pc = "built" /\ config.status = "ok"
  /\ metadata.NumberOfPrecisionRecallPoints >= 3
  /\ Len(config.score_cutoffs) = metadata.NumberOfPrecisionRecallPoints

\* C9, as claimed: once the maps are populated a further ComputeMetrics call
\* does not invoke compute_metrics_fn again, so that it has been invoked at
\* most once however often ComputeMetrics is called.
ComputeMetricsIsMemoized ==
  (pc = "ready" /\ lastOp = "ComputeMetrics") => cmfCalls <= 1

\* C9, amended: every ComputeMetrics call invokes compute_metrics_fn once,
\* also when the maps are populated (and the matcher once more for every
\* eval class that has data), and leaves in the four maps, under every
\* breakdown name, what that call returned for the eval classes.
ComputeMetricsRecomputesOnEveryCall ==
  (pc = "ready" /\ lastOp = "ComputeMetrics") =>
    /\ cmfCalls = calls
    /\ \A pos \in DOMAIN matcherCalls :
         matcherCalls[pos] = (IF HasData(pos) THEN calls ELSE 0)
    /\ \A b \in Range(breakdown_list) :
         /\ b \in DOMAIN average_precisions
         /\ b \in DOMAIN average_precision_headings
         /\ b \in DOMAIN precision_recall
         /\ b \in DOMAIN precision_recall_headings
         /\ \A pos \in DOMAIN metadata.EvalClassIndices :
              /\ average_precisions[b][pos] = fetched[1][pos]["ap_" \o b]
              /\ average_precision_headings[b][pos] =
                   fetched[1][pos]["ap_ha_weighted_" \o b]
              /\ precision_recall[b][pos] = fetched[2][pos]["pr_" \o b]
              /\ precision_recall_headings[b][pos] =
                   fetched[2][pos]["pr_ha_weighted_" \o b]

ComputeMetricsRecomputesOnEveryCallWitness ==
  /\ pc = "ready" /\ lastOp = "ComputeMetrics"
  /\ calls >= 2 /\ cmfCalls >= 2
  /\ \E pos \in DOMAIN matcherCalls : matcherCalls[pos] >= 2
  /\ Len(breakdown_list) > 1

\* C10: an eval class without data keeps NaN as its average precision and
\* its heading-weighted average precision under every breakdown name after
\* aggregation and after any later value or Summary call, and the AP and APH
\* scalars Summary emits for that class are NaN, while the weighted mAP has
\* counted it as 0.
NaNStaysVisiblePerClass ==
  (pc = "ready" /\ calls > 0) =>
    /\ \A pos \in DOMAIN metadata.EvalClassIndices :
         ~HasData(pos) =>
           \A b \in Range(breakdown_list) :
             /\ average_precisions[b][pos] = NaN
             /\ average_precision_headings[b][pos] = NaN
    /\ (lastOp = "Summary" /\ ret.status = "ok") =>
         /\ \A n \in DOMAIN ret.scalars :
              ~HasData(ret.scalars[n].i + 1) =>
                ret.scalars[n].simple_value = NaN
         /\ ret.weighted_mAP.simple_value.num =
              SumOver([pos \in DOMAIN metadata.EvalClassIndices |->
                         IF HasData(pos)
                         THEN average_precisions["ONE_SHARD"][pos].val
                         ELSE 0],
                      DOMAIN metadata.EvalClassIndices)

NaNStaysVisiblePerClassWitness ==
  /\ pc = "ready" /\ calls >= 2
  /\ lastOp = "Summary" /\ ret.status = "ok"
  /\ \E n \in DOMAIN ret.scalars :
       /\ ret.scalars[n].simple_value = NaN
       /\ ~HasData(ret.scalars[n].i + 1)
       /\ ret.scalars[n].k > 0
  /\ ret.weighted_mAP.simple_value.num > 0

====
